---- MODULE Spec2Model ----
(***************************************************************************)
(* A model of task_one.py: the address book (Field / Phone / Birthday /    *)
(* Record / AddressBook), the command handlers behind input_error, the     *)
(* pickle snapshot and the command loop of main().                         *)
(*                                                                         *)
(* Text is a sequence of characters.  A character is a one-character       *)
(* string; "SUP2" stands for U+00B2 (superscript two), a character for     *)
(* which str.isdigit() is true and str.isdecimal() is false.  Names and    *)
(* command words are never inspected character by character by the code    *)
(* and are kept as plain strings.                                          *)
(***************************************************************************)
EXTENDS Integers, Sequences, FiniteSets, TLC

\* ------------------------------------------------------------------ bounds
\* A record's phone list is cut off at MaxPhones entries (the code has no cap).
MaxPhones == 2
\* The widest window get_upcoming_birthdays is called with in SpecQuery.
MaxDays == 8

\* ------------------------------------------------------- program constants
PhoneLen == 10
DefaultDays == 7

\* ------------------------------------------------------------- characters
Digits == <<"0", "1", "2", "3", "4", "5", "6", "7", "8", "9">>

\* The characters of Unicode category Nd that the inputs use.
DecimalChars == {Digits[i] : i \in 1..10}

\* str.isdigit() of one character: decimal characters and the characters of
\* Numeric_Type=Digit, such as the superscript digits.
DigitChars == DecimalChars \cup {"SUP2"}

DigitVal(c) == (CHOOSE i \in 1..10 : Digits[i] = c) - 1

\* str.isdigit(): false on the empty string.
isdigit(s) == Len(s) > 0 /\ \A i \in 1..Len(s) : s[i] \in DigitChars

\* int() of a text of decimal characters.
RECURSIVE int(_)
int(s) == IF Len(s) = 0 THEN 0
          ELSE 10 * int(SubSeq(s, 1, Len(s) - 1)) + DigitVal(s[Len(s)])

\* ------------------------------------------------------------- exceptions
\* The outcome of a call: the exception it raises ("" for none) and its value.
Return(v) == [exc |-> "", val |-> v]
Raise(e) == [exc |-> e, val |-> <<>>]

\* ------------------------------------------------------------------ dates
\* A date is <<year, month, day>>; None is the empty tuple.
None == <<>>

IsLeap(y) == y % 4 = 0 /\ (y % 100 # 0 \/ y % 400 = 0)

DaysInMonth(y, m) ==
    IF m = 2 THEN (IF IsLeap(y) THEN 29 ELSE 28)
    ELSE IF m \in {4, 6, 9, 11} THEN 30 ELSE 31

\* datetime.date(y, m, d): ValueError outside the calendar.
date(y, m, d) ==
    IF y \in 1..9999 /\ m \in 1..12 /\ d \in 1..DaysInMonth(y, m)
    THEN Return(<<y, m, d>>)
    ELSE Raise("ValueError")

\* date.replace(year=y)
replace_year(dt, y) == date(y, dt[2], dt[3])

DaysBeforeYear(y) ==
    365 * (y - 1) + ((y - 1) \div 4) - ((y - 1) \div 100) + ((y - 1) \div 400)

RECURSIVE DaysBeforeMonth(_, _)
DaysBeforeMonth(y, m) ==
    IF m = 1 THEN 0 ELSE DaysBeforeMonth(y, m - 1) + DaysInMonth(y, m - 1)

\* date.toordinal()
toordinal(dt) == DaysBeforeYear(dt[1]) + DaysBeforeMonth(dt[1], dt[2]) + dt[3]

\* dt1 < dt2 on dates
DateLess(a, b) ==
    \/ a[1] < b[1]
    \/ a[1] = b[1] /\ a[2] < b[2]
    \/ a[1] = b[1] /\ a[2] = b[2] /\ a[3] < b[3]

\* The regular expressions strptime builds for %Y, %m and %d.
YearField(s) == Len(s) = 4 /\ \A i \in 1..4 : s[i] \in DecimalChars

MonthField(s) ==
    \/ Len(s) = 2 /\ s[1] = "1" /\ s[2] \in {"0", "1", "2"}
    \/ Len(s) = 2 /\ s[1] = "0" /\ s[2] \in DecimalChars \ {"0"}
    \/ Len(s) = 1 /\ s[1] \in DecimalChars \ {"0"}

DayField(s) ==
    \/ Len(s) = 2 /\ s[1] = "3" /\ s[2] \in {"0", "1"}
    \/ Len(s) = 2 /\ s[1] \in {"1", "2"} /\ s[2] \in DecimalChars
    \/ Len(s) = 2 /\ s[1] = "0" /\ s[2] \in DecimalChars \ {"0"}
    \/ Len(s) = 1 /\ s[1] \in DecimalChars \ {"0"}

\* datetime.strptime(value, "%Y.%m.%d").date(): the whole text must match
\* year "." month "." day, and the three numbers must make a date.
strptime(value) ==
    LET n == Len(value)
        fits(lm, ld) ==
            /\ n = 4 + 1 + lm + 1 + ld
            /\ YearField(SubSeq(value, 1, 4))
            /\ value[5] = "."
            /\ MonthField(SubSeq(value, 6, 5 + lm))
            /\ value[6 + lm] = "."
            /\ DayField(SubSeq(value, 7 + lm, n))
        splits == {sp \in {1, 2} \X {1, 2} : fits(sp[1], sp[2])}
    IN  IF splits = {} THEN Raise("ValueError")
        ELSE LET sp == CHOOSE x \in splits : TRUE
             IN  date(int(SubSeq(value, 1, 4)),
                      int(SubSeq(value, 6, 5 + sp[1])),
                      int(SubSeq(value, 7 + sp[1], n)))

\* The decimal text of a natural number, without padding.
RECURSIVE str(_)
str(k) == IF k < 10 THEN <<Digits[k + 1]>>
          ELSE str(k \div 10) \o <<Digits[(k % 10) + 1]>>

Pad2(k) == IF k < 10 THEN <<"0">> \o str(k) ELSE str(k)

\* date.strftime("%Y.%m.%d"); the C library's %Y does not pad, which shows
\* only for years before 1000.
strftime(dt) == str(dt[1]) \o <<".">> \o Pad2(dt[2]) \o <<".">> \o Pad2(dt[3])

\* ----------------------------------------------------------------- fields
validate_phone(phone) == isdigit(phone) /\ Len(phone) = PhoneLen

\* Phone(value): a Field is modelled by its value.
Phone(value) ==
    IF ~validate_phone(value) THEN Raise("ValueError") ELSE Return(value)

\* Birthday(value): the value is the parsed date.
Birthday(value) ==
    LET r == strptime(value)
    IN  IF r.exc = "ValueError" THEN Raise("ValueError") ELSE Return(r.val)

\* ----------------------------------------------------------------- Record
Record(name) == [name |-> name, phones |-> <<>>, birthday |-> None]

\* add_phone with insert(0, ...) in place of append.
add_phone_first(record, phone) ==
    LET p == Phone(phone)
    IN  IF p.exc # "" THEN Raise(p.exc)
        ELSE Return([record EXCEPT !.phones = <<p.val>> \o @])

add_phone(record, phone) ==
    LET p == Phone(phone)
    IN  IF p.exc # "" THEN Raise(p.exc)
        ELSE Return([record EXCEPT !.phones = Append(@, p.val)])

\* edit_phone without the return that ends the loop at the first match.
edit_phone_all(record, old_phone, new_phone) ==
    LET hits == {i \in 1..Len(record.phones) : record.phones[i] = old_phone}
        p == Phone(new_phone)
    IN  IF hits = {} THEN Return(record)
        ELSE IF p.exc # "" THEN Raise(p.exc)
        ELSE Return([record EXCEPT !.phones =
                        [i \in 1..Len(@) |-> IF i \in hits THEN p.val ELSE @[i]]])

edit_phone(record, old_phone, new_phone) ==
    LET hits == {i \in 1..Len(record.phones) : record.phones[i] = old_phone}
    IN  IF hits = {} THEN Return(record)
        ELSE LET idx == CHOOSE i \in hits : \A j \in hits : i <= j
                 p == Phone(new_phone)
             IN  IF p.exc # "" THEN Raise(p.exc)
                 ELSE Return([record EXCEPT !.phones[idx] = p.val])

Record_add_birthday(record, birthday) ==
    LET b == Birthday(birthday)
    IN  IF b.exc # "" THEN Raise(b.exc)
        ELSE Return([record EXCEPT !.birthday = b.val])

\* Record.__str__: the name, the joined phones and the birthday (None stands
\* for the "No birthday" text).
Record_str(record) == <<record.name, record.phones, record.birthday>>

\* ------------------------------------------------------------ AddressBook
\* The dict self.data in insertion order: a sequence of [key, rec] entries.
AddressBook == <<>>

Keys(book) == {book[i].key : i \in 1..Len(book)}

\* name in book.data
Has(book, name) == name \in Keys(book)

IndexOf(book, name) == CHOOSE i \in 1..Len(book) : book[i].key = name

\* book.data.get(name) / book.data[name], for a name that is a key
get(book, name) == book[IndexOf(book, name)].rec

\* book.data[name] = record: an existing key keeps its place, a new key goes
\* to the end.
setitem(book, name, record) ==
    IF Has(book, name)
    THEN [book EXCEPT ![IndexOf(book, name)].rec = record]
    ELSE Append(book, [key |-> name, rec |-> record])

add_record(book, record) == setitem(book, record.name, record)

\* One round of the loop of get_upcoming_birthdays for a record that has a
\* birthday: the date the birthday falls on, this year or the next.
birthday_this_year(record, today) ==
    LET this == replace_year(record.birthday, today[1])
    IN  IF this.exc # "" THEN Raise(this.exc)
        ELSE IF DateLess(this.val, today)
             THEN replace_year(this.val, today[1] + 1)
             ELSE this

days_until_birthday(record, today) ==
    toordinal(birthday_this_year(record, today).val) - toordinal(today)

get_upcoming_birthdays(book, today, days) ==
    LET with == SelectSeq(book, LAMBDA e : e.rec.birthday # None)
        raising == {i \in 1..Len(with) :
                       birthday_this_year(with[i].rec, today).exc # ""}
        inWindow(e) == /\ 0 <= days_until_birthday(e.rec, today)
                       /\ days_until_birthday(e.rec, today) <= days
        hits == SelectSeq(with, inWindow)
    IN  IF raising # {} THEN Raise("ValueError")
        ELSE Return([i \in 1..Len(hits) |->
                 [name |-> hits[i].rec.name,
                  birthday |-> strftime(birthday_this_year(hits[i].rec, today).val)]])

\* ------------------------------------------------------------ persistence
\* The snapshot file addressbook.pkl: whether it exists and, if it does, the
\* pickled book, one <<key, name, phones, birthday>> tuple for each entry of
\* the dict, in the dict's order.
NoFile == [exists |-> FALSE, data |-> <<>>]

pickle_dump(book) ==
    [i \in 1..Len(book) |->
        <<book[i].key, book[i].rec.name, book[i].rec.phones, book[i].rec.birthday>>]

pickle_load(data) ==
    [i \in 1..Len(data) |->
        [key |-> data[i][1],
         rec |-> [name |-> data[i][2], phones |-> data[i][3],
                  birthday |-> data[i][4]]]]

\* save_data opening the file with mode "ab": pickle.load reads the first
\* book the file holds.
save_data_append(book, f) ==
    IF f.exists THEN f ELSE [exists |-> TRUE, data |-> pickle_dump(book)]

\* save_data(book): the file after the call (mode "wb" truncates what the
\* file held).
save_data(book, f) == [exists |-> TRUE, data |-> pickle_dump(book)]

\* load_data(): the book read from the file; FileNotFoundError gives an
\* empty book.
load_data(f) == IF ~f.exists THEN AddressBook ELSE pickle_load(f.data)

\* --------------------------------------------------------------- handlers
\* A reply is the text of the message, with the values put into it.
Say(text, args) == [text |-> text, args |-> args]

MsgKeyError == "This contact does not exist."
MsgValueError == "Give me name and phone please."
MsgIndexError == "Enter user name."
FailureMessages == {MsgKeyError, MsgValueError, MsgIndexError}

\* The outcome of a handler's body: the exception it ends with ("" for a
\* return), the text it returns and the book it leaves behind (a raise does
\* not undo what the body did to the book before it).
Returns(reply, book) == [exc |-> "", reply |-> reply, book |-> book]
Raises(e, book) == [exc |-> e, reply |-> Say("", <<>>), book |-> book]

\* input_error with IndexError left out of the except clause.
input_error_two(r) ==
    IF r.exc = "" THEN r
    ELSE IF r.exc = "KeyError" THEN Returns(Say(MsgKeyError, <<>>), r.book)
    ELSE IF r.exc = "ValueError" THEN Returns(Say(MsgValueError, <<>>), r.book)
    ELSE r

\* The decorator: the three exceptions become the three messages.
input_error(r) ==
    IF r.exc = "" THEN r
    ELSE IF r.exc = "KeyError" THEN Returns(Say(MsgKeyError, <<>>), r.book)
    ELSE IF r.exc = "ValueError" THEN Returns(Say(MsgValueError, <<>>), r.book)
    ELSE IF r.exc = "IndexError" THEN Returns(Say(MsgIndexError, <<>>), r.book)
    ELSE r

\* add_contact putting the new record into the book before it adds the phone.
add_contact_record_first(args, book) ==
    IF Len(args) < 2 THEN Raises("ValueError", book)
    ELSE LET name == args[1]
             phone == args[2]
             said == Say("Contact {name} added with phone number {phone}.",
                         <<name, phone>>)
             bk == IF Has(book, name) THEN book ELSE add_record(book, Record(name))
             r == add_phone(get(bk, name), phone)
         IN  IF r.exc # "" THEN Raises(r.exc, bk)
             ELSE Returns(said, setitem(bk, name, r.val))

add_contact(args, book) ==
    IF Len(args) < 2 THEN Raises("ValueError", book)
    ELSE LET name == args[1]
             phone == args[2]
             said == Say("Contact {name} added with phone number {phone}.",
                         <<name, phone>>)
         IN  IF Has(book, name)
             THEN LET r == add_phone(get(book, name), phone)
                  IN  IF r.exc # "" THEN Raises(r.exc, book)
                      ELSE Returns(said, setitem(book, name, r.val))
             ELSE LET record == Record(name)
                      r == add_phone(record, phone)
                  IN  IF r.exc # "" THEN Raises(r.exc, book)
                      ELSE Returns(said, add_record(book, r.val))

change_contact(args, book) ==
    IF Len(args) < 3 THEN Raises("ValueError", book)
    ELSE LET name == args[1]
             old_phone == args[2]
             new_phone == args[3]
         IN  IF Has(book, name)
             THEN LET r == edit_phone(get(book, name), old_phone, new_phone)
                  IN  IF r.exc # "" THEN Raises(r.exc, book)
                      ELSE Returns(Say("Phone number for {name} updated to {new_phone}.",
                                       <<name, new_phone>>),
                                   setitem(book, name, r.val))
             ELSE Raises("KeyError", book)

\* show_phone raising ValueError, as add_contact does, when no name is given.
show_phone_value_error(args, book) ==
    IF Len(args) = 0 THEN Raises("ValueError", book)
    ELSE LET name == args[1]
         IN  IF Has(book, name)
             THEN Returns(Say("{name}'s phone numbers are: {phones}.",
                              <<name, get(book, name).phones>>), book)
             ELSE Raises("KeyError", book)

show_phone(args, book) ==
    IF Len(args) = 0 THEN Raises("IndexError", book)
    ELSE LET name == args[1]
         IN  IF Has(book, name)
             THEN Returns(Say("{name}'s phone numbers are: {phones}.",
                              <<name, get(book, name).phones>>), book)
             ELSE Raises("KeyError", book)

show_all_contacts(args, book) ==
    IF Len(book) > 0
    THEN Returns(Say("{records}", [i \in 1..Len(book) |-> Record_str(book[i].rec)]), book)
    ELSE Returns(Say("No contacts available.", <<>>), book)

add_birthday(args, book) ==
    IF Len(args) < 2 THEN Raises("ValueError", book)
    ELSE LET name == args[1]
             birthday == args[2]
         IN  IF Has(book, name)
             THEN LET r == Record_add_birthday(get(book, name), birthday)
                  IN  IF r.exc # "" THEN Raises(r.exc, book)
                      ELSE Returns(Say("Birthday for {name} added: {birthday}",
                                       <<name, birthday>>),
                                   setitem(book, name, r.val))
             ELSE Raises("KeyError", book)

show_birthday(args, book) ==
    IF Len(args) = 0 THEN Raises("IndexError", book)
    ELSE LET name == args[1]
         IN  IF Has(book, name) /\ get(book, name).birthday # None
             THEN Returns(Say("{name}'s birthday is on {birthday}.",
                              <<name, strftime(get(book, name).birthday)>>), book)
             ELSE IF Has(book, name)
             THEN Returns(Say("No birthday set for {name}.", <<name>>), book)
             ELSE Raises("KeyError", book)

\* birthdays(args, book), with the date datetime.today() gives during the call.
birthdays(args, book, clock) ==
    LET r == get_upcoming_birthdays(book, clock, DefaultDays)
    IN  IF r.exc # "" THEN Raises(r.exc, book)
        ELSE IF Len(r.val) > 0
        THEN Returns(Say("Upcoming birthdays:{entries}", r.val), book)
        ELSE Returns(Say("No birthdays in the upcoming week.", <<>>), book)

\* ------------------------------------------------------------------ input
Rep(c, n) == [i \in 1..n |-> c]

Names == {"Al", "Bob"}

P1 == Rep("1", 10)
P2 == Rep("2", 10)
PSup == Rep("SUP2", 10)
PShort == Rep("1", 9)
PAlpha == <<"1", "2", "3", "4", "5", "a", "b", "c", "d", "e">>
PhoneArgs == {P1, P2, PSup, PShort, PAlpha}

BLeap == <<"2", "0", "0", "0", ".", "0", "2", ".", "2", "9">>
BUnpadded == <<"2", "0", "0", "0", ".", "2", ".", "2", "9">>
BMonth13 == <<"2", "0", "0", "0", ".", "1", "3", ".", "0", "5">>
BDashes == <<"2", "0", "0", "0", "-", "0", "2", "-", "2", "9">>
BirthdayArgs == {BLeap, BUnpadded, BMonth13, BDashes}

\* The argument lists typed after add, change and add-birthday: every text
\* for Al; for Bob one phone, one birthday and a change of a phone Bob
\* never has.
AddArgs == ({"Al"} \X PhoneArgs) \cup {<<"Bob", P1>>}
ChangeArgs == ({"Al"} \X {P1, P2} \X {P2, PShort}) \cup {<<"Bob", P2, P1>>}
AddBirthdayArgs == ({"Al"} \X BirthdayArgs) \cup {<<"Bob", BLeap>>}

\* What datetime.today().date() may give.
Todays == {<<2023, 3, 1>>, <<2024, 2, 27>>, <<2024, 3, 6>>}

\* str.lower() on the command words the input uses.
lower(w) ==
    CASE w = "CLOSE" -> "close"
      [] w = "Exit" -> "exit"
      [] w = "Hello" -> "hello"
      [] w = "ADD" -> "add"
      [] OTHER -> w

\* parse_input, on the line already split at whitespace.
parse_input(tokens) ==
    [cmd |-> IF Len(tokens) > 0 THEN lower(tokens[1]) ELSE "",
     args |-> IF Len(tokens) > 0 THEN Tail(tokens) ELSE <<>>]

\* ------------------------------------------------------------------ state
VARIABLES
    book,      \* the AddressBook of the running (or last) session
    file,      \* addressbook.pkl
    pc,        \* "loop": at input(); "exited": main returned; "crashed":
               \* main ended with an exception; "call" / "returned": SpecQuery
    line,      \* the tokens of the last line read
    reply,     \* the last text printed
    today,     \* the date datetime.today() gave during the last step, if asked
    days,      \* SpecQuery: the window get_upcoming_birthdays is called with
    upcoming   \* SpecQuery: what the call returned or raised

vars == <<book, file, pc, line, reply, today, days, upcoming>>

NotCalled == [exc |-> "not called", val |-> <<>>]

Init ==
    /\ file = NoFile
    /\ book = load_data(NoFile)
    /\ pc = "loop"
    /\ line = <<>>
    /\ reply = Say("Welcome to the assistant bot!", <<>>)
    /\ today = None
    /\ days = DefaultDays
    /\ upcoming = NotCalled

\* The if / elif chain of main for a command other than close and exit.
dispatch(command, args, bk, clock) ==
    IF command = "hello" THEN Returns(Say("How can I help you?", <<>>), bk)
    ELSE IF command = "add" THEN input_error(add_contact(args, bk))
    ELSE IF command = "change" THEN input_error(change_contact(args, bk))
    ELSE IF command = "phone" THEN input_error(show_phone(args, bk))
    ELSE IF command = "all" THEN input_error(show_all_contacts(args, bk))
    ELSE IF command = "add-birthday" THEN input_error(add_birthday(args, bk))
    ELSE IF command = "show-birthday" THEN input_error(show_birthday(args, bk))
    ELSE IF command = "birthdays" THEN input_error(birthdays(args, bk, clock))
    ELSE Returns(Say("Invalid command.", <<>>), bk)

WithinBounds(bk) == \A i \in 1..Len(bk) : Len(bk[i].rec.phones) <= MaxPhones

\* One round of the while loop of main: read a line, parse it, act on it.
\* clock is the date datetime.today() gives, should the round ask for it.
MainLoop(tokens, clock) ==
    /\ pc = "loop"
    /\ line' = tokens
    /\ UNCHANGED <<days, upcoming>>
    /\ LET p == parse_input(tokens)
       IN  IF p.cmd \in {"close", "exit"}
           THEN /\ file' = save_data(book, file)
                /\ reply' = Say("Good bye!", <<>>)
                /\ pc' = "exited"
                /\ today' = None
                /\ UNCHANGED book
           ELSE \E r \in {dispatch(p.cmd, p.args, book, clock)} :
                    /\ WithinBounds(r.book)
                    /\ book' = r.book
                    /\ reply' = r.reply
                    /\ pc' = IF r.exc = "" THEN "loop" ELSE "crashed"
                    /\ today' = IF p.cmd = "birthdays" THEN clock ELSE None
                    /\ UNCHANGED file

\* input() at the end of standard input: EOFError leaves main, nothing is saved.
InputEOF ==
    /\ pc = "loop"
    /\ pc' = "crashed"
    /\ reply' = Say("EOFError", <<>>)
    /\ line' = <<>>
    /\ today' = None
    /\ UNCHANGED <<book, file, days, upcoming>>

\* The program is started again: main loads the book and greets.
Start ==
    /\ pc \in {"exited", "crashed"}
    /\ book' = load_data(file)
    /\ pc' = "loop"
    /\ line' = <<>>
    /\ reply' = Say("Welcome to the assistant bot!", <<>>)
    /\ today' = None
    /\ UNCHANGED <<file, days, upcoming>>

\* The lines of each command, over the given argument texts.
Hello == \E w \in {"hello", "Hello"} : MainLoop(<<w>>, None)

Add(AS) ==
    \/ \E w \in {"add", "ADD"} : MainLoop(<<w>>, None)
    \/ \E n \in Names : MainLoop(<<"add", n>>, None)
    \/ \E a \in AS : MainLoop(<<"add">> \o a, None)

Change(AS) ==
    \/ MainLoop(<<"change">>, None)
    \/ \E n \in Names : MainLoop(<<"change", n, P1>>, None)
    \/ \E a \in AS : MainLoop(<<"change">> \o a, None)

ShowPhone ==
    \/ MainLoop(<<"phone">>, None)
    \/ \E n \in Names : MainLoop(<<"phone", n>>, None)

ShowAll == MainLoop(<<"all">>, None)

AddBirthday(AS) ==
    \/ MainLoop(<<"add-birthday">>, None)
    \/ \E n \in Names : MainLoop(<<"add-birthday", n>>, None)
    \/ \E a \in AS : MainLoop(<<"add-birthday">> \o a, None)

ShowBirthday ==
    \/ MainLoop(<<"show-birthday">>, None)
    \/ \E n \in Names : MainLoop(<<"show-birthday", n>>, None)

Birthdays(TS) == \E t \in TS : MainLoop(<<"birthdays">>, t)

Invalid == \E ts \in {<<>>, <<"remove">>} : MainLoop(ts, None)

CloseExit == \E w \in {"close", "exit", "CLOSE", "Exit"} : MainLoop(<<w>>, None)

\* One session, started without a snapshot file.
Next ==
    \/ Hello
    \/ Add(AddArgs)
    \/ Change(ChangeArgs)
    \/ ShowPhone
    \/ ShowAll
    \/ AddBirthday(AddBirthdayArgs)
    \/ ShowBirthday
    \/ Birthdays(Todays)
    \/ Invalid
    \/ CloseExit
    \/ InputEOF

Spec == Init /\ [][Next]_vars

\* ------------------------------------------------- sessions, one after another
SessionAddArgs == {<<"Al", P1>>, <<"Bob", P2>>}
SessionBirthdayArgs == {<<"Al", BLeap>>}

\* The program run again and again on the same snapshot file.
NextSessions ==
    \/ Start
    \/ Add(SessionAddArgs)
    \/ AddBirthday(SessionBirthdayArgs)
    \/ CloseExit
    \/ InputEOF

SpecSessions == Init /\ [][NextSessions]_vars

\* ------------------------------------- get_upcoming_birthdays called directly
BMarch == <<"1", "9", "9", "0", ".", "0", "3", ".", "0", "5">>
BJanuary == <<"1", "9", "8", "5", ".", "0", "1", ".", "0", "2">>
QueryBirthdays == {None, BLeap, BMarch, BJanuary}
QueryTodays == Todays \cup {<<2023, 3, 5>>, <<2023, 12, 30>>}

\* A record as add_contact and add_birthday build it.
QueryRecord(n, b) ==
    LET r == add_phone(Record(n), P1).val
    IN  IF b = None THEN r ELSE Record_add_birthday(r, b).val

QueryBooks ==
    {AddressBook}
    \cup {add_record(AddressBook, QueryRecord(n, b)) : n \in Names, b \in QueryBirthdays}
    \cup {add_record(add_record(AddressBook, QueryRecord(n, b)),
                     QueryRecord(CHOOSE m \in Names : m # n, c)) :
              n \in Names, b \in QueryBirthdays, c \in QueryBirthdays}

InitQuery ==
    /\ book \in QueryBooks
    /\ today \in QueryTodays
    /\ days \in 0..MaxDays
    /\ upcoming = NotCalled
    /\ pc = "call"
    /\ file = NoFile
    /\ line = <<>>
    /\ reply = Say("", <<>>)

Query ==
    /\ pc = "call"
    /\ upcoming' = get_upcoming_birthdays(book, today, days)
    /\ pc' = "returned"
    /\ UNCHANGED <<book, file, line, reply, today, days>>

NextQuery == Query

SpecQuery == InitQuery /\ [][NextQuery]_vars

\* ----------------------------------------------------------------- claims
\* The command and the arguments of the last line read.
Cmd == parse_input(line).cmd
Args == parse_input(line).args

\* This step read a line from standard input (and did not meet its end).
ReadsLine == pc = "loop" /\ reply'.text # "EOFError"

\* A text of exactly ten characters, all of them decimal digits.
TenDecimalDigits(s) == Len(s) = 10 /\ \A i \in 1..Len(s) : s[i] \in DecimalChars

RecordOf(bk, n) == bk[CHOOSE i \in 1..Len(bk) : bk[i].key = n].rec

\* C1: every phone stored in every record of the book is a text of exactly
\* ten characters, all of them decimal digits.
C1_PhonesAreTenDecimalDigits ==
    \A i \in 1..Len(book) : \A j \in 1..Len(book[i].rec.phones) :
        TenDecimalDigits(book[i].rec.phones[j])

\* What C2 says of an add of phone ph for name n, from book b to book c.
AddPost(b, c, n, ph) ==
    IF n \in Keys(b)
    THEN /\ Len(c) = Len(b)
         /\ \A i \in 1..Len(b) :
               IF b[i].key = n
               THEN /\ c[i].key = n
                    /\ c[i].rec.phones = Append(b[i].rec.phones, ph)
                    /\ c[i].rec.birthday = b[i].rec.birthday
                    /\ c[i].rec.name = b[i].rec.name
               ELSE c[i] = b[i]
    ELSE /\ Len(c) = Len(b) + 1
         /\ \A i \in 1..Len(b) : c[i] = b[i]
         /\ c[Len(c)] = [key |-> n,
                         rec |-> [name |-> n, phones |-> <<ph>>, birthday |-> None]]

\* C2: an add with a name and a valid phone appends the phone to the record
\* of a name the book has, keeping its earlier phones and its birthday, and
\* otherwise gives the book one new record with that one phone and no
\* birthday; every other record stays as it was.
C2_AddAppendsOrCreates ==
    [][(/\ ReadsLine
        /\ parse_input(line').cmd = "add"
        /\ Len(parse_input(line').args) >= 2
        /\ TenDecimalDigits(parse_input(line').args[2]))
       => AddPost(book, book', parse_input(line').args[1], parse_input(line').args[2])]_vars

\* C2 witness: the last line added a valid phone to a record that already had
\* a phone and a birthday, beside another record.
C2_Witness ==
    /\ pc = "loop" /\ Cmd = "add" /\ Len(Args) = 2 /\ TenDecimalDigits(Args[2])
    /\ reply.text = "Contact {name} added with phone number {phone}."
    /\ Len(book) = 2
    /\ Len(RecordOf(book, Args[1]).phones) = 2
    /\ RecordOf(book, Args[1]).birthday # None

\* What C3 says of a change of old to new in the phones ps, giving qs.
ChangePost(ps, qs, old, new) ==
    LET hits == {i \in 1..Len(ps) : ps[i] = old}
    IN  IF hits = {} THEN qs = ps
        ELSE TenDecimalDigits(new) =>
               /\ Len(qs) = Len(ps)
               /\ \A i \in 1..Len(ps) :
                     qs[i] = IF i \in hits /\ (\A j \in hits : i <= j) THEN new ELSE ps[i]

\* C3: a change on a record the book has replaces only the first phone equal
\* to old, in place, when new is valid; when old is not among the phones no
\* failure is reported and the phones stay as they were.
C3_ChangeReplacesFirst ==
    [][(/\ ReadsLine
        /\ parse_input(line').cmd = "change"
        /\ Len(parse_input(line').args) >= 3
        /\ parse_input(line').args[1] \in Keys(book))
       => LET a == parse_input(line').args
              ps == RecordOf(book, a[1]).phones
          IN  /\ a[1] \in Keys(book')
              /\ ChangePost(ps, RecordOf(book', a[1]).phones, a[2], a[3])
              /\ (\A i \in 1..Len(ps) : ps[i] # a[2])
                    => reply'.text \notin FailureMessages]_vars

\* C3 witness: the last line changed 1111111111 to 2222222222 and the phones
\* are now 2222222222, 1111111111: of two equal phones the first was replaced.
C3_Witness ==
    /\ pc = "loop" /\ line = <<"change", "Al", P1, P2>>
    /\ reply.text = "Phone number for {name} updated to {new_phone}."
    /\ RecordOf(book, "Al").phones = <<P2, P1>>

\* The day the birthday bd falls on as C4 puts it: its month and day in the
\* year of td, or in the next year if that day is before td.
RolledDate(bd, td) ==
    IF DateLess(<<td[1], bd[2], bd[3]>>, td)
    THEN <<td[1] + 1, bd[2], bd[3]>>
    ELSE <<td[1], bd[2], bd[3]>>

Delta(bd, td) == toordinal(RolledDate(bd, td)) - toordinal(td)

\* The entries C4 expects, in the book's order.
ExpectedUpcoming(bk, td, n) ==
    LET due(e) == /\ e.rec.birthday # None
                  /\ 0 <= Delta(e.rec.birthday, td)
                  /\ Delta(e.rec.birthday, td) <= n
        hits == SelectSeq(bk, due)
    IN  [i \in 1..Len(hits) |->
            [name |-> hits[i].rec.name,
             birthday |-> strftime(RolledDate(hits[i].rec.birthday, td))]]

\* C4: for every book, date and window, get_upcoming_birthdays returns, in
\* the book's order, an entry for exactly the records that have a birthday
\* whose next occurrence is 0 to days days away, with that occurrence's date.
C4_UpcomingIsTheWindow ==
    pc = "returned" =>
        /\ upcoming.exc = ""
        /\ upcoming.val = ExpectedUpcoming(book, today, days)

\* C5: the birthdays command replies with the upcoming list or with the
\* placeholder, never with one of the failure messages.
C5_BirthdaysNeverFails ==
    (pc = "loop" /\ Cmd = "birthdays") =>
        /\ reply.text \notin FailureMessages
        /\ reply.text \in {"Upcoming birthdays:{entries}",
                           "No birthdays in the upcoming week."}

\* C6: once add-birthday has accepted the text b for a contact, a
\* show-birthday for that contact reports b itself.
C6_BirthdayRendersBack ==
    (/\ pc = "loop" /\ Cmd = "add-birthday"
     /\ reply.text = "Birthday for {name} added: {birthday}")
    => show_birthday(<<Args[1]>>, book).reply
         = Say("{name}'s birthday is on {birthday}.", <<Args[1], Args[2]>>)

\* C7: a session started without a snapshot file starts with an empty book,
\* and a session started after a session that ended with close or exit
\* starts with the book that session had in memory when it ended.
C7_SessionsRoundTrip ==
    [][(pc # "loop" /\ pc' = "loop")
       => /\ ~file.exists => book' = <<>>
          /\ pc = "exited" => book' = book]_vars

\* C7 witness: a session has just started from a snapshot and holds two
\* records, one of them with two phones and a birthday.
C7_Witness ==
    /\ pc = "loop" /\ reply.text = "Welcome to the assistant bot!"
    /\ file.exists
    /\ Len(book) = 2
    /\ \E i \in 1..2 : Len(book[i].rec.phones) = 2 /\ book[i].rec.birthday # None

NeedName == {"add", "change", "phone", "add-birthday", "show-birthday"}

\* C8 as stated: each of add, change, phone, add-birthday and show-birthday,
\* given no argument, replies "Enter user name.".
C8_NoArgsEnterUserName ==
    (pc = "loop" /\ Cmd \in NeedName /\ Len(Args) = 0) => reply.text = "Enter user name."

\* C8 amended: given no argument, phone and show-birthday reply "Enter user
\* name.", and add, change and add-birthday reply "Give me name and phone
\* please.".
C8_NoArgsReplies ==
    (pc = "loop" /\ Cmd \in NeedName /\ Len(Args) = 0)
    => reply.text = IF Cmd \in {"phone", "show-birthday"}
                    THEN "Enter user name."
                    ELSE "Give me name and phone please."

\* C8 witness: phone without an argument was answered "Enter user name.".
C8_Witness == pc = "loop" /\ line = <<"phone">> /\ reply.text = "Enter user name."

\* Keys are not repeated and each is the name of its record.
BookUsable(bk) ==
    /\ \A i, j \in 1..Len(bk) : bk[i].key = bk[j].key => i = j
    /\ \A i \in 1..Len(bk) : bk[i].key = bk[i].rec.name

\* C9: a line whose command is close or exit ends the loop; after any other
\* line the loop has printed a reply and is back at its prompt with a usable
\* book.
C9_LoopGoesOn ==
    [][ReadsLine
       => IF parse_input(line').cmd \in {"close", "exit"}
          THEN pc' = "exited"
          ELSE pc' = "loop" /\ reply'.text # "" /\ BookUsable(book')]_vars

\* C9 witness: a command for a name the book does not have was answered
\* "This contact does not exist." and the loop goes on with its records.
C9_Witness ==
    /\ pc = "loop" /\ reply.text = "This contact does not exist."
    /\ Len(book) > 0 /\ Cmd = "change"

\* C10: a command answered with one of the three failure messages leaves
\* the book as it was.
C10_FailureLeavesBook ==
    [][(ReadsLine /\ reply'.text \in FailureMessages) => book' = book]_vars

\* C10 witness: an add with a bad phone for a name the book does not have
\* was answered with a failure message.
C10_Witness ==
    /\ pc = "loop" /\ line = <<"add", "Al", PShort>>
    /\ reply.text = "Give me name and phone please."
    /\ ~Has(book, "Al")

====
